---- MODULE Spec2Model ----
(***************************************************************************)
(* A model of server.js, the BAOU notice monitor: a long-running process   *)
(* that scrapes a notice page on a timer, computes the notices that are    *)
(* new with respect to a persisted History, emails them, and on a          *)
(* successful dispatch prepends them to the History file.                  *)
(*                                                                         *)
(* Strings are sequences of bytes (the UTF-8 bytes Buffer.from produces;   *)
(* the modelled texts are ASCII, so bytes and UTF-16 code units agree).    *)
(* The clock counts milliseconds from 2024-12-31T23:00:00.000Z and stays   *)
(* inside January 2025, so that the ISO rendering of an instant is a       *)
(* plain computation and the turn of the year is one hour away.            *)
(***************************************************************************)
EXTENDS Integers, Sequences, FiniteSets, TLC

\* ------------------------------------------------------------------ bounds

\* Cycles the process starts in a run (the initial one and the timer's).
MaxCycles == 3
\* Input/output operations that fail in a run.
MaxFaults == 1
\* Firings of the interval timer that are late in a run.
MaxLate == 1
\* Milliseconds that elapse inside the synchronous scrape-and-diff stretches of a run.
MaxDrift == 1

\* --------------------------------------------------------- program constants

\* CONFIG.checkInterval
CheckInterval == 1800000
\* the recency window of the diff, 24 * 60 * 60 * 1000
RecencyWindow == 24 * 60 * 60 * 1000
\* the length of the slice of the base64 text that is the id
IdLength == 12

\* ----------------------------------------------------------- Date rendering

\* The instant the clock starts at is 23 hours into 2024-12-31.
ClockStart == 23 * 3600000

Digit(d) == 48 + d
TwoDigits(n) == << Digit(n \div 10), Digit(n % 10) >>
ThreeDigits(n) == << Digit(n \div 100), Digit((n \div 10) % 10), Digit(n % 10) >>
FourDigits(n) == << Digit(n \div 1000), Digit((n \div 100) % 10),
                    Digit((n \div 10) % 10), Digit(n % 10) >>

\* The civil date of day number d: day 0 is 2024-12-31, day d (1..31) is
\* 2025-01-d.
CivilDate(d) == IF d = 0 THEN [year |-> 2024, month |-> 12, day |-> 31]
                         ELSE [year |-> 2025, month |-> 1, day |-> d]

\* new Date(ms).toISOString(): YYYY-MM-DDTHH:mm:ss.sssZ
ToISOString(ms) ==
    LET sinceMidnight == ms + ClockStart
        date == CivilDate(sinceMidnight \div 86400000)
        inDay == sinceMidnight % 86400000
    IN  FourDigits(date.year) \o << 45 >> \o TwoDigits(date.month) \o << 45 >>
        \o TwoDigits(date.day) \o << 84 >>
        \o TwoDigits(inDay \div 3600000) \o << 58 >>
        \o TwoDigits((inDay \div 60000) % 60) \o << 58 >>
        \o TwoDigits((inDay \div 1000) % 60) \o << 46 >>
        \o ThreeDigits(inDay % 1000) \o << 90 >>

Num(s, from, to) ==
    LET RECURSIVE Acc(_, _)
        Acc(k, v) == IF k > to THEN v ELSE Acc(k + 1, 10 * v + (s[k] - 48))
    IN  Acc(from, 0)

\* new Date(isoString): the instant an ISO string denotes, in clock milliseconds.
DateParse(iso) ==
    LET year == Num(iso, 1, 4)
        day == Num(iso, 9, 10)
        dayNumber == IF year = 2024 THEN day - 31 ELSE day
    IN  dayNumber * 86400000 + Num(iso, 12, 13) * 3600000
        + Num(iso, 15, 16) * 60000 + Num(iso, 18, 19) * 1000 + Num(iso, 21, 23)
        - ClockStart

\* ------------------------------------------------------------------- base64

Base64Alphabet ==
    << "A","B","C","D","E","F","G","H","I","J","K","L","M","N","O","P",
       "Q","R","S","T","U","V","W","X","Y","Z","a","b","c","d","e","f",
       "g","h","i","j","k","l","m","n","o","p","q","r","s","t","u","v",
       "w","x","y","z","0","1","2","3","4","5","6","7","8","9","+","/" >>

\* Buffer.prototype.toString("base64"): three bytes give four characters,
\* a short last group is padded with "=".
Base64(bytes) ==
    LET n == Len(bytes)
        ByteAt(k) == IF k <= n THEN bytes[k] ELSE 0
        Group(g) == ByteAt(3 * g + 1) * 65536 + ByteAt(3 * g + 2) * 256 + ByteAt(3 * g + 3)
        Sextet(g, p) == CASE p = 0 -> Group(g) \div 262144
                          [] p = 1 -> (Group(g) \div 4096) % 64
                          [] p = 2 -> (Group(g) \div 64) % 64
                          [] p = 3 -> Group(g) % 64
        Char(g, p) == IF p >= 2 /\ 3 * g + p > n THEN "="
                      ELSE Base64Alphabet[Sextet(g, p) + 1]
    IN  [k \in 1 .. 4 * ((n + 2) \div 3) |-> Char((k - 1) \div 4, (k - 1) % 4)]

\* String.prototype.slice(0, n)
Slice(s, n) == SubSeq(s, 1, IF Len(s) < n THEN Len(s) ELSE n)

\* generateNotificationId(text, timestamp), timestamp an ISO string
generateNotificationId(text, timestamp) ==
    Slice(Base64(text \o << 45 >> \o timestamp), IdLength)

\* ------------------------------------------------------------ the notice page

\* "Exam date A" and "Exam date B": two notices that agree on their first
\* nine bytes; "Fee": a notice shorter than nine bytes.
ExamDateA == << 69, 120, 97, 109, 32, 100, 97, 116, 101, 32, 65 >>
ExamDateB == << 69, 120, 97, 109, 32, 100, 97, 116, 101, 32, 66 >>
Fee == << 70, 101, 101 >>

\* What $(".dpul li") can yield: the trimmed text of each list item, top first.
Pages == { << >>, << Fee >>, << ExamDateA, ExamDateB >>, << Fee, ExamDateA >> }

\* How late the interval timer can fire (the host was suspended, the event loop
\* was busy): so late that it fires one recency window after its last firing.
Lateness == { RecencyWindow - CheckInterval }

Cycles == 1 .. MaxCycles

\* --------------------------------------------------------------------- state

VARIABLES
    clock,          \* Date.now(), in milliseconds from 2024-12-31T23:00:00.000Z
    storageFile,    \* previous-notifications.json: NoFile or File(a list of notices)
    backupFile,     \* previous-notifications.json.backup
    phase,          \* startMonitoring: "boot", "probing", "initial", "running", "exited"
    timerAt,        \* the instant the interval timer is due, -1 while not installed
    started,        \* monitorNotifications calls made so far
    pc,             \* per cycle: the await it is suspended at, "idle" or "done"
    prev,           \* per cycle: previousNotifications
    cur,            \* per cycle: currentNotifications
    newN,           \* per cycle: newNotifications
    diffAt,         \* per cycle: Date.now() in the filter
    emailSent,      \* per cycle: "unset", "true" or "false"
    loadErr,        \* per cycle: its readFile failed with an error other than ENOENT
    tried,          \* per cycle: what it has called: "send", "save", "backup", "main"
    before,         \* per cycle: the two files as they were when it started
    pred,           \* per cycle: the cycle that returned last before it started,
                    \*            kept if that one's dispatch failed
    last,           \* the cycle that returned last: how it ended and its locals
    after,          \* pred of the cycle that returned last
    batches,        \* the batches sendEmailNotification returned true for
    overlapped,     \* a cycle was started while another was in progress
    failed,         \* the kinds of operation that have failed: "load", "fetch", ...
    faults,         \* operations that have failed so far
    lateUsed,       \* late timer firings so far
    driftUsed,      \* milliseconds elapsed in scrape-and-diff stretches so far
    subject,        \* the notification a utility function is called with
    answer          \* what the utility function returned

files == << storageFile, backupFile >>
locals == << pc, prev, cur, newN, diffAt, emailSent, loadErr, tried, before, pred >>
budget == << failed, faults, lateUsed, driftUsed >>
utility == << subject, answer >>
service == << clock, storageFile, backupFile, phase, timerAt, started,
              pc, prev, cur, newN, diffAt, emailSent, loadErr, tried, before, pred,
              last, after, batches, overlapped, failed, faults, lateUsed, driftUsed >>
vars == << service, utility >>

\* A file: absent (readFile fails with ENOENT) or holding a JSON list of notices.
NoFile == [exists |-> FALSE, data |-> << >>]
File(list) == [exists |-> TRUE, data |-> list]
Files == [store |-> storageFile, backup |-> backupFile]

Range(s) == { s[k] : k \in 1 .. Len(s) }
\* The notices sendEmailNotification returned true for.
emailed == UNION { Range(b) : b \in batches }
Texts(s) == { s[k].text : k \in 1 .. Len(s) }
PageOf(s) == [k \in 1 .. Len(s) |-> s[k].text]

\* The frame of a cycle: its locals, and what is recorded about it.
NoCycle ==
    [ how |-> "none", prev |-> << >>, cur |-> << >>, newN |-> << >>, diffAt |-> 0,
      emailSent |-> "unset", loadErr |-> FALSE, tried |-> {},
      before |-> [store |-> NoFile, backup |-> NoFile], settled |-> "pending" ]
Frame(i) ==
    [ how |-> "running", prev |-> prev[i], cur |-> cur[i], newN |-> newN[i],
      diffAt |-> diffAt[i], emailSent |-> emailSent[i], loadErr |-> loadErr[i],
      tried |-> tried[i], before |-> before[i], settled |-> "pending" ]

\* No utility function has been called.
NoSubject == [text |-> << >>, isUrgent |-> FALSE, isNew |-> FALSE, category |-> "OTHER"]
NoAnswer == [of |-> "none", value |-> "none"]

\* The service before startMonitoring is called.
Stopped ==
    /\ clock = 0
    /\ storageFile = NoFile
    /\ backupFile = NoFile
    /\ phase = "boot"
    /\ timerAt = -1
    /\ started = 0
    /\ pc = [i \in Cycles |-> "idle"]
    /\ prev = [i \in Cycles |-> NoCycle.prev]
    /\ cur = [i \in Cycles |-> NoCycle.cur]
    /\ newN = [i \in Cycles |-> NoCycle.newN]
    /\ diffAt = [i \in Cycles |-> NoCycle.diffAt]
    /\ emailSent = [i \in Cycles |-> NoCycle.emailSent]
    /\ loadErr = [i \in Cycles |-> NoCycle.loadErr]
    /\ tried = [i \in Cycles |-> NoCycle.tried]
    /\ before = [i \in Cycles |-> NoCycle.before]
    /\ pred = [i \in Cycles |-> NoCycle]
    /\ last = NoCycle
    /\ after = NoCycle
    /\ batches = {}
    /\ overlapped = FALSE
    /\ failed = {}
    /\ faults = 0
    /\ lateUsed = 0
    /\ driftUsed = 0

Init ==
    /\ Stopped
    /\ subject = NoSubject
    /\ answer = NoAnswer

\* An operation of the given kind may fail now, and does.
MayFail == faults < MaxFaults
Fails(kind) == failed' = failed \cup { kind } /\ faults' = faults + 1
NoFailure == UNCHANGED << failed, faults >>

\* ------------------------------------------------------------- the scheduler

InProgress(i) == pc[i] \notin { "idle", "done" }

\* monitorNotifications() up to its first await: the log line and the readFile
\* of loadPreviousNotifications.
BeginCycle(i) ==
    /\ started' = i
    /\ pc' = [pc EXCEPT ![i] = "loading"]
    /\ before' = [before EXCEPT ![i] = Files]
    /\ pred' = [pred EXCEPT ![i] = IF last.emailSent = "false" THEN last ELSE NoCycle]
    /\ overlapped' = (overlapped \/ \E j \in Cycles : InProgress(j))
    /\ UNCHANGED << prev, cur, newN, diffAt, emailSent, loadErr, tried >>

\* startMonitoring up to its first await: the readFile of the probing
\* loadPreviousNotifications (which never throws, so the catch that would
\* save an empty list never runs).
StartMonitoring ==
    /\ phase = "boot"
    /\ phase' = "probing"
    /\ UNCHANGED << clock, files, timerAt, started, locals, last, after,
                    batches, utility, overlapped, budget >>

\* The probing load returns (its result is dropped) and the initial check starts.
ProbeDone ==
    /\ phase = "probing"
    /\ phase' = "initial"
    /\ BeginCycle(1)
    /\ UNCHANGED << clock, files, timerAt, last, after, batches, utility, budget >>

\* The setInterval callback: it starts a cycle whatever the earlier ones are
\* doing. Time passes until the timer is due, and for as long as it is late.
TimerFire(late) ==
    /\ phase = "running"
    /\ started < MaxCycles
    /\ late > 0 => lateUsed < MaxLate
    /\ lateUsed' = IF late > 0 THEN lateUsed + 1 ELSE lateUsed
    /\ clock' = (IF clock > timerAt THEN clock ELSE timerAt) + late
    /\ timerAt' = clock' + CheckInterval
    /\ BeginCycle(started + 1)
    /\ UNCHANGED << files, phase, last, after, batches, utility, failed, faults, driftUsed >>

\* A variant without the .catch of the timer callback: any rejection ends the
\* process.
Settle_NoCatch(i, outcome, t) ==
    IF outcome = "rejected"
    THEN phase' = "exited" /\ timerAt' = timerAt
    ELSE IF i = 1
         THEN phase' = "running" /\ timerAt' = t + CheckInterval
         ELSE UNCHANGED << phase, timerAt >>

\* The promise of cycle i settles at instant t. The initial check is awaited by
\* startMonitoring inside its try: resolved, the interval timer is installed;
\* rejected, the catch exits the process. A timer cycle's rejection is logged
\* by its .catch.
Settle(i, outcome, t) ==
    IF i = 1
    THEN IF outcome = "resolved"
         THEN phase' = "running" /\ timerAt' = t + CheckInterval
         ELSE phase' = "exited" /\ timerAt' = timerAt
    ELSE UNCHANGED << phase, timerAt >>

\* Cycle i returns or throws at instant t, leaving the given frame.
Return(i, frame, outcome, t) ==
    /\ pc' = [pc EXCEPT ![i] = "done"]
    /\ prev' = [prev EXCEPT ![i] = NoCycle.prev]
    /\ cur' = [cur EXCEPT ![i] = NoCycle.cur]
    /\ newN' = [newN EXCEPT ![i] = NoCycle.newN]
    /\ diffAt' = [diffAt EXCEPT ![i] = NoCycle.diffAt]
    /\ emailSent' = [emailSent EXCEPT ![i] = NoCycle.emailSent]
    /\ loadErr' = [loadErr EXCEPT ![i] = NoCycle.loadErr]
    /\ tried' = [tried EXCEPT ![i] = NoCycle.tried]
    /\ before' = [before EXCEPT ![i] = NoCycle.before]
    /\ pred' = [pred EXCEPT ![i] = NoCycle]
    /\ last' = [frame EXCEPT !.settled = outcome]
    /\ after' = pred[i]
    /\ Settle(i, outcome, t)

\* ------------------------------------------------------- monitorNotifications

\* loadPreviousNotifications: the parsed file; the empty list when the file is
\* absent (ENOENT) and also when the read or the parse fails otherwise.
loadPreviousNotifications(file, err) ==
    IF err \/ ~file.exists THEN << >> ELSE file.data

\* The readFile of cycle i returns; the cycle goes on to axios.get.
LoadDone(i, err) ==
    /\ phase # "exited"
    /\ pc[i] = "loading"
    /\ err => storageFile.exists /\ MayFail
    /\ prev' = [prev EXCEPT ![i] = loadPreviousNotifications(storageFile, err)]
    /\ loadErr' = [loadErr EXCEPT ![i] = err]
    /\ IF err THEN Fails("load") ELSE NoFailure
    /\ pc' = [pc EXCEPT ![i] = "fetching"]
    /\ UNCHANGED << clock, files, phase, timerAt, started, cur, newN, diffAt,
                    emailSent, tried, before, pred, last, after, batches, utility, overlapped,
                    lateUsed, driftUsed >>

\* The milliseconds that elapse before each of the n clock reads of a
\* synchronous stretch of code, summed up to read c.
Elapsed(drift, c) ==
    LET RECURSIVE Sum(_)
        Sum(k) == IF k = 0 THEN 0 ELSE drift[k] + Sum(k - 1)
    IN  Sum(c)
\* The first read is at the instant the stretch starts.
Drifts(n, most) == { d \in [1 .. n -> 0 .. 1] : d[1] = 0 /\ Elapsed(d, n) <= most }

\* The .each callback of fetchNotifications over the list items: item k reads
\* the clock twice, first for the id, then for the timestamp.
Scrape(texts, t, drift) ==
    [k \in 1 .. Len(texts) |->
        [ id |-> generateNotificationId(texts[k],
                                        ToISOString(t + Elapsed(drift, 2 * k - 1))),
          text |-> texts[k],
          timestamp |-> ToISOString(t + Elapsed(drift, 2 * k)) ]]

\* Variants of the callback: without the text-and-recency clause; with an
\* inclusive window.
AlreadyAlerted_IdOnly(p, current, now) ==
    p.id = current.id
AlreadyAlerted_Inclusive(p, current, now) ==
    \/ p.id = current.id
    \/ /\ p.text = current.text
       /\ DateParse(p.timestamp) >= now - RecencyWindow

\* The callback of previousNotifications.some
AlreadyAlerted(p, current, now) ==
    \/ p.id = current.id
    \/ /\ p.text = current.text
       /\ DateParse(p.timestamp) > now - RecencyWindow

\* A variant of the filter that collects the new notices last first.
NewNotifications_Reversed(current, previous, now) ==
    LET kept == SelectSeq(current,
                    LAMBDA c : ~ \E k \in 1 .. Len(previous) :
                                    AlreadyAlerted(previous[k], c, now))
    IN  [k \in 1 .. Len(kept) |-> kept[Len(kept) + 1 - k]]

\* currentNotifications.filter(...)
NewNotifications(current, previous, now) ==
    SelectSeq(current,
              LAMBDA c : ~ \E k \in 1 .. Len(previous) : AlreadyAlerted(previous[k], c, now))

\* A variant in which the failure of the fetch escapes the cycle.
FetchFailureOutcome_Throws == "rejected"

\* What a failed fetch does to the cycle: fetchNotifications catches the error
\* and returns null, and monitorNotifications returns.
FetchFailureOutcome == "resolved"

\* axios.get fails or times out.
FetchFailed(i) ==
    /\ phase # "exited"
    /\ pc[i] = "fetching"
    /\ MayFail
    /\ Fails("fetch")
    /\ Return(i, [Frame(i) EXCEPT !.how = "fetchFailed"], FetchFailureOutcome, clock)
    /\ UNCHANGED << clock, files, started, batches, utility, overlapped, lateUsed, driftUsed >>

\* An unexpected fault: the fetch has returned a list and the filter throws (a
\* TypeError, the parsed History not being a list of notices); nothing in
\* monitorNotifications catches it, and the promise of the cycle rejects.
DiffThrows(i) ==
    /\ phase # "exited"
    /\ pc[i] = "fetching"
    /\ MayFail
    /\ Fails("diff")
    /\ Return(i, [Frame(i) EXCEPT !.how = "threw"], "rejected", clock)
    /\ UNCHANGED << clock, files, started, batches, utility, overlapped, lateUsed, driftUsed >>

\* A variant that dispatches whatever the diff found.
HasNew_Always(fresh) == TRUE

\* if (newNotifications.length > 0)
HasNew(fresh) == Len(fresh) > 0

\* The page arrives: scrape, diff, and either call sendEmailNotification (up
\* to its await of resend.emails.send) or log that nothing is new and return.
FetchDone(i, page, drift) ==
    /\ phase # "exited"
    /\ pc[i] = "fetching"
    /\ \E now \in { clock + Elapsed(drift, 2 * Len(page) + 1) },
          current \in { Scrape(page, clock, drift) } :
         \E fresh \in { NewNotifications(current, prev[i], now) } :
            /\ clock' = now
            /\ driftUsed' = driftUsed + (now - clock)
            /\ IF HasNew(fresh)
               THEN /\ pc' = [pc EXCEPT ![i] = "sending"]
                    /\ cur' = [cur EXCEPT ![i] = current]
                    /\ diffAt' = [diffAt EXCEPT ![i] = now]
                    /\ newN' = [newN EXCEPT ![i] = fresh]
                    /\ tried' = [tried EXCEPT ![i] = @ \cup { "send" }]
                    /\ UNCHANGED << phase, timerAt, prev, emailSent, loadErr, before,
                                    pred, last, after >>
               ELSE Return(i, [Frame(i) EXCEPT !.how = "nothingNew", !.cur = current,
                                               !.newN = fresh, !.diffAt = now],
                           "resolved", now)
    /\ UNCHANGED << files, started, batches, utility, overlapped, failed, faults, lateUsed >>

\* A variant that saves whatever the dispatch returned.
ShouldSave_Always(sent) == TRUE

\* if (emailSent)
ShouldSave(sent) == sent

\* resend.emails.send settles: sendEmailNotification returns true or false.
\* On true the cycle calls saveNotifications, up to its first writeFile.
SendDone(i, ok) ==
    /\ phase # "exited"
    /\ pc[i] = "sending"
    /\ ~ok => MayFail
    /\ IF ok THEN NoFailure ELSE Fails("send")
    /\ batches' = IF ok THEN batches \cup { newN[i] } ELSE batches
    /\ UNCHANGED utility
    /\ IF ShouldSave(ok)
       THEN /\ emailSent' = [emailSent EXCEPT ![i] = IF ok THEN "true" ELSE "false"]
            /\ pc' = [pc EXCEPT ![i] = "writingBackup"]
            /\ tried' = [tried EXCEPT ![i] = @ \cup { "save", "backup" }]
            /\ UNCHANGED << phase, timerAt, prev, cur, newN, diffAt, loadErr, before,
                            pred, last, after >>
       ELSE Return(i, [Frame(i) EXCEPT !.how = "sendFailed",
                                       !.emailSent = IF ok THEN "true" ELSE "false"],
                   "resolved", clock)
    /\ UNCHANGED << clock, files, started, overlapped, lateUsed, driftUsed >>

\* A variant that puts the new notices after the old ones.
Merged_Appended(i) == prev[i] \o newN[i]

\* [...newNotifications, ...previousNotifications]
Merged(i) == newN[i] \o prev[i]

\* The writeFile of the backup settles. A failure lands in the catch of
\* saveNotifications: it is logged and the main file is not written.
BackupWriteDone(i, ok) ==
    /\ phase # "exited"
    /\ pc[i] = "writingBackup"
    /\ ~ok => MayFail
    /\ IF ok THEN NoFailure ELSE Fails("backup")
    /\ IF ok
       THEN /\ backupFile' = File(Merged(i))
            /\ pc' = [pc EXCEPT ![i] = "writingMain"]
            /\ tried' = [tried EXCEPT ![i] = @ \cup { "main" }]
            /\ UNCHANGED << phase, timerAt, prev, cur, newN, diffAt, emailSent,
                            loadErr, before, pred, last, after >>
       ELSE /\ Return(i, [Frame(i) EXCEPT !.how = "backupFailed"], "resolved", clock)
            /\ UNCHANGED backupFile
    /\ UNCHANGED << clock, storageFile, started, batches, utility, overlapped,
                    lateUsed, driftUsed >>

\* The writeFile of the History file settles; saveNotifications and the cycle
\* return either way.
MainWriteDone(i, ok) ==
    /\ phase # "exited"
    /\ pc[i] = "writingMain"
    /\ ~ok => MayFail
    /\ IF ok THEN NoFailure ELSE Fails("main")
    /\ storageFile' = IF ok THEN File(Merged(i)) ELSE storageFile
    /\ Return(i, [Frame(i) EXCEPT !.how = IF ok THEN "saved" ELSE "mainFailed"],
              "resolved", clock)
    /\ UNCHANGED << clock, backupFile, started, batches, utility, overlapped,
                    lateUsed, driftUsed >>

\* ------------------------------------------------------------- specification

Next ==
    \/ StartMonitoring
    \/ ProbeDone
    \/ \E late \in Lateness \cup { 0 } : TimerFire(late)
    \/ \E i \in Cycles, err \in BOOLEAN : LoadDone(i, err)
    \/ \E i \in Cycles : FetchFailed(i)
    \/ \E i \in Cycles : DiffThrows(i)
    \/ \E i \in { j \in Cycles : pc[j] = "fetching" }, page \in Pages :
         \E drift \in Drifts(2 * Len(page) + 1, MaxDrift - driftUsed) :
            FetchDone(i, page, drift)
    \/ \E i \in Cycles, ok \in BOOLEAN : SendDone(i, ok)
    \/ \E i \in Cycles, ok \in BOOLEAN : BackupWriteDone(i, ok)
    \/ \E i \in Cycles, ok \in BOOLEAN : MainWriteDone(i, ok)

Spec == Init /\ [][Next]_vars

TypeOK ==
    /\ clock \in Nat
    /\ started \in 0 .. MaxCycles
    /\ \A i \in Cycles : pc[i] \in { "idle", "loading", "fetching", "sending",
                                     "writingBackup", "writingMain", "done" }

\* ------------------------------------------------------- utility functions

\* Strings are sequences of UTF-16 code units. String.prototype.toLowerCase
\* on the code units the texts below are made of: A..Z map to a..z; digits,
\* punctuation and Gujarati letters are unchanged.
LowerUnit(c) == IF c >= 65 /\ c <= 90 THEN c + 32 ELSE c
ToLowerCase(s) == [k \in 1 .. Len(s) |-> LowerUnit(s[k])]

\* String.prototype.includes
Includes(s, part) ==
    \E at \in 0 .. Len(s) - Len(part) : SubSeq(s, at + 1, at + Len(part)) = part

\* The categories object, in the order Object.entries lists its keys.
categories == <<
    [ name |-> "EXAM", keywords |-> <<
        << 101, 120, 97, 109 >>,
        << 101, 120, 97, 109, 105, 110, 97, 116, 105, 111, 110 >>,
        << 116, 101, 115, 116 >>,
        << 97, 115, 115, 101, 115, 115, 109, 101, 110, 116 >>,
        << 2730, 2736, 2752, 2709, 2765, 2743, 2750 >> >> ],
    [ name |-> "ASSIGNMENT", keywords |-> <<
        << 97, 115, 115, 105, 103, 110, 109, 101, 110, 116 >>,
        << 104, 111, 109, 101, 119, 111, 114, 107 >>,
        << 115, 117, 98, 109, 105, 115, 115, 105, 111, 110 >>,
        << 2744, 2765, 2741, 2750, 2727, 2765, 2735, 2750, 2735 >> >> ],
    [ name |-> "SCHEDULE", keywords |-> <<
        << 115, 99, 104, 101, 100, 117, 108, 101 >>,
        << 116, 105, 109, 101, 116, 97, 98, 108, 101 >>,
        << 100, 97, 116, 101, 115 >>,
        << 2744, 2734, 2735, 2730, 2724, 2765, 2736, 2709 >> >> ],
    [ name |-> "ANNOUNCEMENT", keywords |-> <<
        << 97, 110, 110, 111, 117, 110, 99, 101, 109, 101, 110, 116 >>,
        << 110, 111, 116, 105, 99, 101 >>,
        << 99, 105, 114, 99, 117, 108, 97, 114 >>,
        << 2744, 2754, 2714, 2728, 2750 >> >> ],
    [ name |-> "DEADLINE", keywords |-> <<
        << 108, 97, 115, 116, 32, 100, 97, 116, 101 >>,
        << 100, 101, 97, 100, 108, 105, 110, 101 >>,
        << 100, 117, 101, 32, 100, 97, 116, 101 >>,
        << 2693, 2690, 2724, 2751, 2734, 32, 2724, 2750, 2736, 2752, 2710 >> >> ] >>
\* (EXAM: exam, examination, test, assessment; ASSIGNMENT: assignment, homework,
\* submission; SCHEDULE: schedule, timetable, dates; ANNOUNCEMENT: announcement,
\* notice, circular; DEADLINE: last date, deadline, due date; each with one
\* Gujarati keyword.)

\* keywords.some((keyword) => text.toLowerCase().includes(keyword.toLowerCase()))
KeywordHit(text, keywords) ==
    \E k \in 1 .. Len(keywords) : Includes(ToLowerCase(text), ToLowerCase(keywords[k]))

\* A variant of the loop that goes on after a hit and returns the last one.
categorizeNotification_LastMatch(text) ==
    LET hits == { c \in 1 .. Len(categories) : KeywordHit(text, categories[c].keywords) }
    IN  IF hits = {} THEN "OTHER"
        ELSE categories[CHOOSE c \in hits : \A d \in hits : d <= c].name

\* The loop returns at the first category with a hit.
categorizeNotification(text) ==
    LET hits == { c \in 1 .. Len(categories) : KeywordHit(text, categories[c].keywords) }
    IN  IF hits = {} THEN "OTHER"
        ELSE categories[CHOOSE c \in hits : \A d \in hits : c <= d].name

Important == << 105, 109, 112, 111, 114, 116, 97, 110, 116 >>   \* "important"

\* A variant that looks for "important" without lowering the text.
calculatePriority_CaseSensitive(notification) ==
    LET score == (IF notification.isUrgent THEN 2 ELSE 0)
                 + (IF notification.isNew THEN 1 ELSE 0)
                 + (IF notification.category = "DEADLINE" THEN 1 ELSE 0)
                 + (IF Includes(notification.text, Important) THEN 1 ELSE 0)
    IN  IF score < 5 THEN score ELSE 5

calculatePriority(notification) ==
    LET score == (IF notification.isUrgent THEN 2 ELSE 0)
                 + (IF notification.isNew THEN 1 ELSE 0)
                 + (IF notification.category = "DEADLINE" THEN 1 ELSE 0)
                 + (IF Includes(ToLowerCase(notification.text), Important) THEN 1 ELSE 0)
    IN  IF score < 5 THEN score ELSE 5

\* The texts the utility functions are called with: up to two of these
\* fragments, one after the other.
Fragments == {
    << 69, 120, 97, 109 >>,   \* "Exam"
    << 84, 69, 83, 84 >>,   \* "TEST"
    << 72, 111, 109, 101, 119, 111, 114, 107 >>,   \* "Homework"
    << 84, 105, 109, 101, 116, 97, 98, 108, 101 >>,   \* "Timetable"
    << 78, 111, 116, 105, 99, 101 >>,   \* "Notice"
    << 76, 97, 115, 116 >>,   \* "Last"
    << 32, 68, 97, 116, 101 >>,   \* " Date"
    << 68, 69, 65, 68, 76, 73, 78, 69 >>,   \* "DEADLINE"
    << 100, 117, 101 >>,   \* "due"
    << 73, 109, 112, 111, 114, 116, 97, 110, 116 >>,   \* "Important"
    << 73, 77, 80, 79, 82, 84, 65, 78, 84, 32 >>,   \* "IMPORTANT "
    << 82, 101, 115, 117, 108, 116 >>,   \* "Result"
    << 2730, 2736, 2752, 2709, 2765, 2743, 2750 >>,   \* a Gujarati keyword
    << 2693, 2690, 2724, 2751, 2734, 32, 2724, 2750, 2736, 2752, 2710 >> }   \* a Gujarati keyword
UtilityTexts == { << >> } \cup Fragments \cup { a \o b : a, b \in Fragments }
Categories == { categories[c].name : c \in 1 .. Len(categories) } \cup { "OTHER" }
Subjects == [ text : UtilityTexts, isUrgent : BOOLEAN, isNew : BOOLEAN,
              category : Categories ]

UtilityInit ==
    /\ Stopped
    /\ subject \in Subjects
    /\ answer = NoAnswer

\* categorizeNotification(subject.text) is called and returns.
Categorize ==
    /\ answer = NoAnswer
    /\ answer' = [of |-> "categorizeNotification", value |-> categorizeNotification(subject.text)]
    /\ UNCHANGED << service, subject >>

\* calculatePriority(subject) is called and returns.
Prioritize ==
    /\ answer = NoAnswer
    /\ answer' = [of |-> "calculatePriority", value |-> calculatePriority(subject)]
    /\ UNCHANGED << service, subject >>

UtilityNext == Categorize \/ Prioritize

UtilitySpec == UtilityInit /\ [][UtilityNext]_vars

\* -------------------------------------------------------------------- claims

\* The frames in which the diff has run: the cycles suspended in the dispatch
\* or the save, and the cycle that returned last unless its fetch failed.
PastDiff == { i \in Cycles : pc[i] \in { "sending", "writingBackup", "writingMain" } }
AllFrames == { Frame(i) : i \in Cycles } \cup { last }
Diffed == { Frame(i) : i \in PastDiff }
          \cup (IF last.how \in { "none", "fetchFailed", "threw" } THEN {} ELSE { last })
\* Each such frame with the frame of the cycle before it, if that one's
\* dispatch failed.
Pairs == { << Frame(i), pred[i] >> : i \in PastDiff }
         \cup (IF last.how \in { "none", "fetchFailed", "threw" } THEN {} ELSE { << last, after >> })

Sequential == ~overlapped
\* No cycle stands between its two writes: the files are as the cycle that
\* returned last left them.
NoWriteSince == \A j \in Cycles : pc[j] # "writingMain"
Untouched(F) == (Sequential /\ NoWriteSince) => Files = F.before
Age(notice, now) == now - DateParse(notice.timestamp)

RECURSIVE IsSubseq(_, _)
IsSubseq(s, t) ==
    IF Len(s) = 0 THEN TRUE
    ELSE IF Len(t) = 0 THEN FALSE
    ELSE IF Head(s) = Head(t) THEN IsSubseq(Tail(s), Tail(t))
    ELSE IsSubseq(s, Tail(t))

\* C1: every notice of the persisted History is in a batch for which
\* sendEmailNotification returned true, and no cycle calls saveNotifications
\* unless its dispatch returned true.
C1_HistoryOnlyEmailed ==
    /\ Range(storageFile.data) \subseteq emailed
    /\ \A F \in AllFrames : "save" \in F.tried => F.emailSent = "true"

\* C1 witness: the History holds notices, and a dispatch has failed on the way.
C1_Witness ==
    /\ Len(storageFile.data) > 0
    /\ "send" \in failed

\* Whenever a cycle dispatches, every notice alerted before with the text of
\* one it dispatches now was scraped a recency window or more before this diff.
NoRepeatWithinWindow ==
    \A i \in Cycles : pc[i] = "sending" =>
        \A n \in Range(newN[i]), m \in emailed :
            m.text = n.text => Age(m, diffAt[i]) >= RecencyWindow

FailedDispatchWritesNothing ==
    \A F \in AllFrames : F.emailSent = "false" =>
        /\ F.tried = { "send" }
        /\ Untouched(F)

C4_DiffCharacterised ==
    \A F \in Diffed : \A k \in 1 .. Len(F.cur) :
        LET c == F.cur[k]
        IN  c \in Range(F.newN) <=>
                /\ ~ \E h \in Range(F.prev) : h.id = c.id
                /\ ~ \E h \in Range(F.prev) :
                        h.text = c.text /\ Age(h, F.diffAt) < RecencyWindow

\* C4 witness: a notice is held back by the text of a recent History entry
\* alone, no History entry having its id.
C4_Witness ==
    \E F \in Diffed : \E k \in 1 .. Len(F.cur) :
        /\ F.cur[k] \notin Range(F.newN)
        /\ ~ \E h \in Range(F.prev) : h.id = F.cur[k].id

\* C5: a notice whose text is in the History, every History entry with that
\* text being more than 24 hours old at the diff, is reported new again.
C5_RealertedAfterWindow ==
    \A F \in Diffed : \A k \in 1 .. Len(F.cur) :
        LET c == F.cur[k]
            same == { h \in Range(F.prev) : h.text = c.text }
        IN  (same # {} /\ \A h \in same : Age(h, F.diffAt) > RecencyWindow) =>
                c \in Range(F.newN)

\* C6: the same text scraped in two different cycles, at two different
\* instants, gets two different ids.
C6_IdsDifferAcrossCycles ==
    Sequential =>
        \A F \in Diffed : \A h \in Range(F.prev) : \A k \in 1 .. Len(F.cur) :
            (h.text = F.cur[k].text /\ h.timestamp # F.cur[k].timestamp) =>
                h.id # F.cur[k].id

\* C7: two notices of one scrape batch with different texts have different ids.
C7_IdsUniqueInBatch ==
    \A F \in Diffed : \A k, l \in 1 .. Len(F.cur) :
        F.cur[k].text # F.cur[l].text => F.cur[k].id # F.cur[l].id

\* C8: the new notices are a subsequence of the batch in page order; all of
\* the batch when the History is empty; none when the batch is empty.
C8_NewIsSubsequence ==
    \A F \in Diffed :
        /\ IsSubseq(F.newN, F.cur)
        /\ F.prev = << >> => F.newN = F.cur
        /\ F.cur = << >> => F.newN = << >>

\* C8 witness: of a batch of two the diff keeps the second alone; and in
\* another cycle a whole batch of two is new.
C8_Witness ==
    /\ \E F \in Diffed : Len(F.cur) = 2 /\ F.newN = << F.cur[2] >> /\ F.prev # << >>
    /\ Cardinality(emailed) >= 2

\* C9: a cycle whose batch is empty, or whose diff finds nothing new, calls
\* neither the dispatch nor the save, and while cycles run one at a time both
\* files are as they were when it started.
C9_NothingNewNoEffect ==
    \A F \in Diffed : F.newN = << >> =>
        /\ F.tried = {}
        /\ Untouched(F)

\* C9 witness: a cycle scraped notices, all of them alerted before, and
\* returned with a History on disk.
C9_Witness ==
    /\ last.how = "nothingNew"
    /\ Len(last.cur) > 0
    /\ Len(storageFile.data) > 0

\* C10: a cycle whose fetch failed has called neither the dispatch nor the
\* save, has returned normally, and the interval timer is installed and can
\* fire for the next cycle.
C10_FetchFailureHarmless ==
    last.how = "fetchFailed" =>
        /\ last.tried = {}
        /\ last.settled = "resolved"
        /\ Untouched(last)
        /\ phase = "running"
        /\ timerAt >= 0
        /\ started < MaxCycles => ENABLED TimerFire(0)

\* C10 witness: the initial check failed to fetch, and the timer has started
\* the next cycle.
C10_Witness ==
    /\ "fetch" \in failed
    /\ \E i \in Cycles : i > 1 /\ pc[i] = "loading"
    /\ last.how = "fetchFailed"

Stamp(notice) == DateParse(notice.timestamp)
SameBatch(a, c) == \E b \in batches : { a, c } \subseteq Range(b)

\* C11, amended: the persisted History is ordered newest batch first: of two
\* entries that were not dispatched in one batch the one nearer the head has
\* the later or the same timestamp; entries of one batch are in page order,
\* the one nearer the head having the earlier or the same timestamp.
C11_NewestBatchFirst ==
    \A i, j \in 1 .. Len(storageFile.data) : i < j =>
        LET a == storageFile.data[i]
            c == storageFile.data[j]
        IN  IF SameBatch(a, c) THEN Stamp(a) <= Stamp(c) ELSE Stamp(a) >= Stamp(c)

\* C11 as stated: of any two History entries the one nearer the head has the
\* later or the same timestamp.
C11_AsStated ==
    \A i, j \in 1 .. Len(storageFile.data) : i < j =>
        Stamp(storageFile.data[i]) >= Stamp(storageFile.data[j])

\* C11 witness: the History holds two batches, the newer at the head, and two
\* entries of one batch with timestamps a millisecond apart.
C11_Witness ==
    \E i, j, k \in 1 .. Len(storageFile.data) :
        /\ i < j /\ j < k
        /\ ~ SameBatch(storageFile.data[i], storageFile.data[k])
        /\ Stamp(storageFile.data[i]) > Stamp(storageFile.data[k])
        /\ \/ /\ SameBatch(storageFile.data[i], storageFile.data[j])
              /\ Stamp(storageFile.data[i]) < Stamp(storageFile.data[j])
           \/ /\ SameBatch(storageFile.data[j], storageFile.data[k])
              /\ Stamp(storageFile.data[j]) < Stamp(storageFile.data[k])

\* C12: at most one monitoring cycle is in progress at any time.
C12_SingleFlight ==
    Cardinality({ i \in Cycles : InProgress(i) }) <= 1

\* What the claim calls a case-insensitive substring match: the keyword
\* occurs in the text, letters compared without regard to case.
SameLetter(a, b) ==
    \/ a = b
    \/ a \in 65 .. 90 /\ b = a + 32
    \/ b \in 65 .. 90 /\ a = b + 32
MatchesIgnoringCase(text, keyword) ==
    \E at \in 0 .. Len(text) - Len(keyword) :
        \A k \in 1 .. Len(keyword) : SameLetter(text[at + k], keyword[k])
CategoryOrder == << "EXAM", "ASSIGNMENT", "SCHEDULE", "ANNOUNCEMENT", "DEADLINE" >>
KeywordsOf(name) ==
    LET entry == CHOOSE c \in 1 .. Len(categories) : categories[c].name = name
    IN  Range(categories[entry].keywords)
Matching(text) ==
    { c \in 1 .. Len(CategoryOrder) :
        \E keyword \in KeywordsOf(CategoryOrder[c]) : MatchesIgnoringCase(text, keyword) }

\* C13: categorizeNotification returns the first category, in the order EXAM,
\* ASSIGNMENT, SCHEDULE, ANNOUNCEMENT, DEADLINE, one of whose keywords occurs
\* in the text without regard to case, and OTHER when none does.
C13_FirstMatchingCategory ==
    answer.of = "categorizeNotification" =>
        LET matching == Matching(subject.text)
        IN  answer.value = IF matching = {} THEN "OTHER"
                           ELSE CategoryOrder[CHOOSE c \in matching : \A d \in matching : c <= d]

\* C13 witness: a text in which a keyword of a later category stands before a
\* keyword of an earlier one, in capitals, got the earlier category.
C13_Witness ==
    /\ answer.of = "categorizeNotification"
    /\ subject.text = << 68, 69, 65, 68, 76, 73, 78, 69 >> \o << 69, 120, 97, 109 >>
    /\ answer.value = "EXAM"

Flag(b) == IF b THEN 1 ELSE 0
Weighted(notification) ==
    2 * Flag(notification.isUrgent) + Flag(notification.isNew)
    + Flag(notification.category = "DEADLINE")
    + Flag(MatchesIgnoringCase(notification.text, Important))
RaisedByOne(notification) ==
    { [notification EXCEPT !.isUrgent = TRUE],
      [notification EXCEPT !.isNew = TRUE],
      [notification EXCEPT !.category = "DEADLINE"],
      [notification EXCEPT !.text = notification.text \o Important] }

\* C14: calculatePriority returns an integer from 0 to 5, the smaller of 5 and
\* 2*[isUrgent] + [isNew] + [category = DEADLINE] + [text contains
\* "important"], and raising any one flag never lowers the result.
C14_PriorityScore ==
    answer.of = "calculatePriority" =>
        /\ answer.value \in 0 .. 5
        /\ answer.value = (IF Weighted(subject) < 5 THEN Weighted(subject) ELSE 5)
        /\ \A raised \in RaisedByOne(subject) : calculatePriority(raised) >= answer.value

\* C14 witness: all four flags are set, the text having "IMPORTANT" in
\* capitals, and the score is 5; and a notification with no flag set got 0.
C14_Witness ==
    /\ answer.of = "calculatePriority"
    /\ subject.isUrgent /\ subject.isNew /\ subject.category = "DEADLINE"
    /\ subject.text = << 73, 77, 80, 79, 82, 84, 65, 78, 84, 32 >>
    /\ answer.value = 5

\* C15: a cycle that called saveNotifications has attempted both the backup
\* write and the main write, whichever of them failed, and has returned
\* normally.
C15_WritesIndependent ==
    last.how \in { "saved", "backupFailed", "mainFailed" } =>
        /\ { "backup", "main" } \subseteq last.tried
        /\ last.settled = "resolved"

\* C16, amended: an unexpected fault thrown inside a cycle the interval timer
\* started does not end the process: the timer stays installed and its next
\* tick starts a cycle. Thrown inside the first cycle, the initial check, it
\* ends the process before the timer is installed.
C16_FaultInTimerCycleSurvived ==
    last.how = "threw" =>
        /\ last.settled = "rejected"
        /\ IF started = 1
           THEN phase = "exited" /\ timerAt = -1 /\ ~ ENABLED TimerFire(0)
           ELSE /\ phase = "running"
                /\ timerAt >= 0
                /\ started < MaxCycles => ENABLED TimerFire(0)

\* C16 as stated: after an unexpected fault thrown inside any cycle, the first
\* included, the process runs on, the timer is installed and its next tick
\* starts a cycle.
C16_AsStated ==
    last.how = "threw" =>
        /\ phase = "running"
        /\ timerAt >= 0
        /\ started < MaxCycles => ENABLED TimerFire(0)

\* C16 witness: a timer cycle threw, and the next tick has started a cycle.
C16_Witness ==
    /\ last.how = "threw"
    /\ started = 3
    /\ pc[2] = "done"
    /\ pc[3] = "loading"
    /\ ~overlapped

\* C17: a scraped notice whose text is the text of no History entry is
\* reported as new by the diff.
C17_UnseenTextIsNew ==
    \A F \in Diffed : \A k \in 1 .. Len(F.cur) :
        (\A h \in Range(F.prev) : h.text # F.cur[k].text) =>
            F.cur[k] \in Range(F.newN)

NoWriteFailed == failed \cap { "backup", "main" } = {}

\* C18: once the cycles have finished, no write and no load having failed,
\* the persisted History holds every notice a cycle emailed, also when cycles
\* overlapped.
C18_NoLostUpdate ==
    (NoWriteFailed /\ "load" \notin failed /\ \A i \in Cycles : ~ InProgress(i)) =>
        emailed \subseteq Range(storageFile.data)

\* C19: while no cycle is inside saveNotifications and no write has failed,
\* the backup file and the History file hold the same list, also when the
\* saves of overlapping cycles interleaved.
C19_BackupEqualsMain ==
    (NoWriteFailed /\ \A i \in Cycles : pc[i] \notin { "writingBackup", "writingMain" }) =>
        backupFile = storageFile

====
